---- MODULE Spec2Model ----
(***************************************************************************)
(* Model of get_px_deltas_from_lines: distances between white pixels along *)
(* the rows of an image, with the columns covered by a mask left out.      *)
(*                                                                         *)
(* Column indices are 0-based as in the Rust source; TLA+ sequences are    *)
(* 1-based, so the pixel at index i of a row is row[i + 1].                *)
(* An Option or a not-yet-computed value is a sequence of length 0 or 1.   *)
(***************************************************************************)
EXTENDS Integers, Sequences, FiniteSets, TLC

\* ------------------------------------------------------------------ bounds
\* longest row handed to pixel_deltas_from_row
MaxLen == 7
\* largest grid handed to all_pixel_deltas: MaxHeight x MaxWidth, MaxCells pixels
MaxHeight == 2
MaxWidth == 4
MaxCells == 8
\* most white pixels of a mask handed to all_pixel_deltas
MaxMasked == 2
\* most pixels of a decoded file
MaxFileCells == 3

\* ------------------------------------------------------------- pixel values
\* u8::MAX, what T::max_value() is for the u8 grids of processing.rs
White == 255
\* u8::MIN, the value of every pixel of the mask built when no mask is given
Black == 0
\* the pixel values of the grids: the code only ever compares a pixel with
\* max_value(), so u8::MIN stands for every value below u8::MAX
Pixels == {Black, White}

\* ------------------------------------------------------------------ helpers
Some(x) == <<x>>
None == <<>>

RECURSIVE Concat(_)
Concat(seqs) ==
    IF seqs = <<>> THEN <<>> ELSE Head(seqs) \o Concat(Tail(seqs))

\* ------------------------------------------------------ white_pixel_indices
IsWhite(val) == val = White

\* ascending 0-based indices of the pixels equal to the maximum value
white_pixel_indices(vec) ==
    SelectSeq([i \in 1..Len(vec) |-> i - 1], LAMBDA idx : IsWhite(vec[idx + 1]))

\* --------------------------------------------- pixel_deltas_from_masked_run
\* variant: the first edge measures from index 0, as in main.rs
EdgeMeasures_FromLeft(idx_no, idx, last_edge_idx) ==
    idx # last_edge_idx

\* the test that lets an edge measure a distance: not the first edge of the
\* run, and not at the index of the previous edge
EdgeMeasures(idx_no, idx, last_edge_idx) ==
    (idx_no > 0) /\ (idx # last_edge_idx)

\* variant: a distance of 1 is kept
KeepDiff_AnyGap(diff) == diff > 0

KeepDiff(diff) == diff > 1

\* variant: last_edge_idx moves only when a delta is kept
RunStep_KeepsLast(st, idx_no, idx) ==
    IF st.panicked THEN st
    ELSE IF EdgeMeasures(idx_no, idx, st.last_edge_idx)
    THEN IF idx < st.last_edge_idx
         THEN [st EXCEPT !.panicked = TRUE]
         ELSE LET diff == idx - st.last_edge_idx IN
              IF KeepDiff(diff)
              THEN [diffs |-> Append(st.diffs, diff),
                    last_edge_idx |-> idx,
                    panicked |-> FALSE]
              ELSE st
    ELSE st

\* one iteration of the loop over the edges; idx - last_edge_idx is a usize
\* subtraction, which panics when it would go below zero
RunStep(st, idx_no, idx) ==
    IF st.panicked THEN st
    ELSE IF EdgeMeasures(idx_no, idx, st.last_edge_idx)
    THEN IF idx < st.last_edge_idx
         THEN [st EXCEPT !.panicked = TRUE]
         ELSE LET diff == idx - st.last_edge_idx IN
              [diffs |-> IF KeepDiff(diff) THEN Append(st.diffs, diff) ELSE st.diffs,
               last_edge_idx |-> idx,
               panicked |-> FALSE]
    ELSE [st EXCEPT !.last_edge_idx = idx]

RECURSIVE RunLoop(_, _, _)
RunLoop(st, edges, idx_no) ==
    IF idx_no >= Len(edges) THEN st
    ELSE RunLoop(RunStep(st, idx_no, edges[idx_no + 1]), edges, idx_no + 1)

RunInit == [diffs |-> <<>>, last_edge_idx |-> 0, panicked |-> FALSE]

\* the final loop state: .diffs is the returned list
masked_run(sub_row) == RunLoop(RunInit, white_pixel_indices(sub_row), 0)

pixel_deltas_from_masked_run(sub_row) == masked_run(sub_row).diffs

\* ---------------------------------------------------- pixel_deltas_from_row
\* mask edge indices followed by the row length
mask_split_indices(row, row_mask) ==
    Append(white_pixel_indices(row_mask), Len(row))

\* variant: the boundary after a masked column is not skipped
BoundaryGuard_NoSkip(row_mask, idx_end) ==
    IF idx_end = 0 THEN "use"
    ELSE IF idx_end - 1 >= Len(row_mask) THEN "panic"
    ELSE "use"

\* variant: idx_end == 0 is not tested, so idx_end - 1 underflows there
BoundaryGuard_Underflow(row_mask, idx_end) ==
    IF idx_end - 1 < 0 \/ idx_end - 1 >= Len(row_mask) THEN "panic"
    ELSE IF ~IsWhite(row_mask[idx_end]) THEN "use"
    ELSE "skip"

\* the guard of the loop body, (idx_end == 0) || !(*row_mask[idx_end - 1] == white):
\* "use" when it holds, "skip" when it does not, "panic" when reading
\* row_mask[idx_end - 1] is out of bounds. || short-circuits, so the mask is
\* read only when idx_end /= 0.
BoundaryGuard(row_mask, idx_end) ==
    IF idx_end = 0 THEN "use"
    ELSE IF idx_end - 1 >= Len(row_mask) THEN "panic"
    ELSE IF ~IsWhite(row_mask[idx_end]) THEN "use"
    ELSE "skip"

\* taking row[idx_start..idx_end] panics
SlicePanics(row, idx_start, idx_end) ==
    (idx_start > idx_end) \/ (idx_end > Len(row))

\* variant: the next range starts at the boundary itself
NextStart_KeepsBoundary(idx_end) == idx_end

NextStart(idx_end) == idx_end + 1

\* variant: the range runs through the boundary column, row[idx_start..=idx_end]
WalkStep_ThroughBoundary(st, row, row_mask, idx_end) ==
    LET guard == BoundaryGuard(row_mask, idx_end) IN
    IF st.panicked THEN st
    ELSE IF guard = "panic"
    THEN [st EXCEPT !.panicked = TRUE]
    ELSE IF guard = "use"
    THEN IF SlicePanics(row, st.idx_start, idx_end)
         THEN [st EXCEPT !.panicked = TRUE]
         ELSE LET split == SubSeq(row, st.idx_start + 1,
                                  IF idx_end < Len(row) THEN idx_end + 1 ELSE idx_end)
                  sub == masked_run(split)
              IN  [idx_start |-> NextStart(idx_end),
                   row_diffs |-> st.row_diffs \o sub.diffs,
                   segs |-> Append(st.segs, <<st.idx_start, idx_end>>),
                   outs |-> Append(st.outs, sub.diffs),
                   panicked |-> sub.panicked]
    ELSE [st EXCEPT !.idx_start = NextStart(idx_end)]

\* variant: idx_start moves only when the boundary gave a range
WalkStep_AdvanceOnUse(st, row, row_mask, idx_end) ==
    LET guard == BoundaryGuard(row_mask, idx_end) IN
    IF st.panicked THEN st
    ELSE IF guard = "panic"
    THEN [st EXCEPT !.panicked = TRUE]
    ELSE IF guard = "use"
    THEN IF SlicePanics(row, st.idx_start, idx_end)
         THEN [st EXCEPT !.panicked = TRUE]
         ELSE LET split == SubSeq(row, st.idx_start + 1, idx_end)
                  sub == masked_run(split)
              IN  [idx_start |-> NextStart(idx_end),
                   row_diffs |-> st.row_diffs \o sub.diffs,
                   segs |-> Append(st.segs, <<st.idx_start, idx_end>>),
                   outs |-> Append(st.outs, sub.diffs),
                   panicked |-> sub.panicked]
    ELSE st

\* one iteration of the loop over the boundaries. segs records the ranges
\* [start, end) handed to pixel_deltas_from_masked_run, in order, and outs
\* what it returned for each.
WalkStep(st, row, row_mask, idx_end) ==
    LET guard == BoundaryGuard(row_mask, idx_end) IN
    IF st.panicked THEN st
    ELSE IF guard = "panic"
    THEN [st EXCEPT !.panicked = TRUE]
    ELSE IF guard = "use"
    THEN IF SlicePanics(row, st.idx_start, idx_end)
         THEN [st EXCEPT !.panicked = TRUE]
         ELSE LET split == SubSeq(row, st.idx_start + 1, idx_end)
                  sub == masked_run(split)
              IN  [idx_start |-> NextStart(idx_end),
                   row_diffs |-> st.row_diffs \o sub.diffs,
                   segs |-> Append(st.segs, <<st.idx_start, idx_end>>),
                   outs |-> Append(st.outs, sub.diffs),
                   panicked |-> sub.panicked]
    ELSE [st EXCEPT !.idx_start = NextStart(idx_end)]

WalkInit ==
    [idx_start |-> 0, row_diffs |-> <<>>, segs |-> <<>>, outs |-> <<>>, panicked |-> FALSE]

RECURSIVE WalkLoop(_, _, _, _, _)
WalkLoop(st, row, row_mask, bounds, k) ==
    IF k > Len(bounds) THEN st
    ELSE WalkLoop(WalkStep(st, row, row_mask, bounds[k]), row, row_mask, bounds, k + 1)

\* the final loop state: .row_diffs is the returned list
row_walk(row, row_mask) ==
    WalkLoop(WalkInit, row, row_mask, mask_split_indices(row, row_mask), 1)

pixel_deltas_from_row(row, row_mask) == row_walk(row, row_mask).row_diffs

\* ================================================ main.rs (earlier version)
\* the grids of main.rs are boolean: load_image maps each pixel to a == u8::MAX
find_true_indices(vec) ==
    SelectSeq([i \in 1..Len(vec) |-> i - 1], LAMBDA idx : vec[idx + 1])

SubRowStep(st, idx) ==
    IF st.panicked THEN st
    ELSE IF idx # st.last_edge_idx
    THEN IF idx < st.last_edge_idx
         THEN [st EXCEPT !.panicked = TRUE]
         ELSE LET diff == idx - st.last_edge_idx IN
              [diffs |-> IF diff > 1 THEN Append(st.diffs, diff) ELSE st.diffs,
               last_edge_idx |-> idx,
               panicked |-> FALSE]
    ELSE [st EXCEPT !.last_edge_idx = idx]

RECURSIVE SubRowLoop(_, _, _)
SubRowLoop(st, edges, k) ==
    IF k > Len(edges) THEN st
    ELSE SubRowLoop(SubRowStep(st, edges[k]), edges, k + 1)

\* variant: last_edge_idx starts at the first edge, not at 0
sub_row_run_FromFirst(sub_row) ==
    LET edges == find_true_indices(sub_row) IN
    SubRowLoop([RunInit EXCEPT !.last_edge_idx = IF edges = <<>> THEN 0 ELSE edges[1]],
               edges, 1)

sub_row_run(sub_row) == SubRowLoop(RunInit, find_true_indices(sub_row), 1)

get_diffs_from_sub_row(sub_row) == sub_row_run(sub_row).diffs

MainWalkStep(st, row, row_mask, idx_end) ==
    IF st.panicked THEN st
    ELSE IF (idx_end # 0) /\ (idx_end - 1 >= Len(row_mask))
    THEN [st EXCEPT !.panicked = TRUE]
    ELSE IF (idx_end = 0) \/ ~row_mask[idx_end]
    THEN IF (st.idx_start > idx_end) \/ (idx_end > Len(row))
         THEN [st EXCEPT !.panicked = TRUE]
         ELSE LET split == SubSeq(row, st.idx_start + 1, idx_end)
                  sub == sub_row_run(split)
              IN  [idx_start |-> idx_end + 1,
                   row_diffs |-> st.row_diffs \o sub.diffs,
                   segs |-> Append(st.segs, <<st.idx_start, idx_end>>),
                   outs |-> Append(st.outs, sub.diffs),
                   panicked |-> sub.panicked]
    ELSE [st EXCEPT !.idx_start = idx_end + 1]

RECURSIVE MainWalkLoop(_, _, _, _, _)
MainWalkLoop(st, row, row_mask, bounds, k) ==
    IF k > Len(bounds) THEN st
    ELSE MainWalkLoop(MainWalkStep(st, row, row_mask, bounds[k]),
                      row, row_mask, bounds, k + 1)

main_row_walk(row, row_mask) ==
    MainWalkLoop(WalkInit, row, row_mask,
                 Append(find_true_indices(row_mask), Len(row)), 1)

get_diffs_from_row(row, row_mask) == main_row_walk(row, row_mask).row_diffs

\* ==================================================================== grids
\* an Array2: its shape (h, w) and its rows
Shape(g) == <<g.h, g.w>>

GridsOf(h, w, vals) == [h : {h}, w : {w}, px : [1..h -> [1..w -> vals]]]

\* the grids the tests hand to all_pixel_deltas directly
Shapes == {s \in (0..MaxHeight) \X (0..MaxWidth) : s[1] * s[2] <= MaxCells}
Grids == UNION {GridsOf(s[1], s[2], Pixels) : s \in Shapes}
\* a grid of one colour, as Array2::zeros builds
Uniform(h, w, val) == [h |-> h, w |-> w, px |-> [r \in 1..h |-> [c \in 1..w |-> val]]]

\* what a PNG file decodes to: at least one pixel
FileShapes == {s \in (1..MaxFileCells) \X (1..MaxFileCells) : s[1] * s[2] <= MaxFileCells}
FileGrids == UNION {GridsOf(s[1], s[2], Pixels) : s \in FileShapes}

\* variant: the default mask is white
ToBlack_White(val) == White

ToBlack(val) == Black
ToFalse(val) == FALSE
IsMax(val) == val = White

\* image.clone().mapv(|_| 0): the mask built when no mask path is given
no_mask(img) ==
    [h |-> img.h, w |-> img.w,
     px |-> [r \in 1..img.h |-> [c \in 1..img.w |-> ToBlack(img.px[r][c])]]]

\* image.clone().mapv(|_| false)
main_no_mask(img) ==
    [h |-> img.h, w |-> img.w,
     px |-> [r \in 1..img.h |-> [c \in 1..img.w |-> ToFalse(img.px[r][c])]]]

\* Array2::<u8>::from_shape_vec(..)?.mapv(|a| a == u8::MAX)
to_bool(img) ==
    [h |-> img.h, w |-> img.w,
     px |-> [r \in 1..img.h |-> [c \in 1..img.w |-> IsMax(img.px[r][c])]]]

\* ==================================================================== paths
\* a path is the sequence of its characters
PathA == <<"a", ".", "p", "n", "g">>
PathB == <<"b", ".", "p", "n", "g">>
PathJpg == <<"c", ".", "j", "p", "g">>
PathGone == <<"d", ".", "p", "n", "g">>
PathJunk == <<"e", ".", "p", "n", "g">>
PathNoDot == <<"f", "p", "n", "g">>
Paths == {PathA, PathB, PathJpg, PathGone, PathJunk, PathNoDot}
\* the files that exist; PathJunk and PathNoDot are not decodable PNGs
Existing == Paths \ {PathGone}
DotPng == <<".", "p", "n", "g">>

ends_with(str, suffix) ==
    /\ Len(str) >= Len(suffix)
    /\ SubSeq(str, Len(str) - Len(suffix) + 1, Len(str)) = suffix

\* ============================================================ program state
VARIABLES
    entry,       \* "call": get_px_deltas_from_lines; "direct": all_pixel_deltas
                 \* called with two grids, as the tests do; "row": a single
                 \* call of pixel_deltas_from_row
    version,     \* "processing" (src/processing.rs) or "main" (src/main.rs)
    image_path,  \* argument of get_px_deltas_from_lines
    mask_path,   \* argument of get_px_deltas_from_lines: None or Some(path)
    fs,          \* what each existing file decodes to: None (not a PNG) or Some(grid)
    image,       \* None until the image grid exists
    mask,        \* None until the mask grid exists
    pc,          \* the next step of the call
    row,         \* loop variable of all_pixel_deltas
    diffs,       \* accumulator of all_pixel_deltas
    result,      \* None until the call returns (or panics)
    trace,       \* the steps taken so far, in order
    r_row,       \* pixel_deltas_from_row: argument row
    r_mask,      \* pixel_deltas_from_row: argument row_mask
    r_k,         \* pixel_deltas_from_row: position in mask_split_indices
    r_walk,      \* pixel_deltas_from_row: idx_start, row_diffs (and the ranges used)
    r_pc         \* pixel_deltas_from_row: "loop", "returned" or "panic"

callVars == <<version, image_path, mask_path, fs, image, mask, pc, row, diffs,
              result, trace>>
rowVars == <<r_row, r_mask, r_k, r_walk, r_pc>>
vars == <<entry, version, image_path, mask_path, fs, image, mask, pc, row, diffs,
          result, trace, r_row, r_mask, r_k, r_walk, r_pc>>

Versions == {"processing", "main"}

DefaultGrid == [h |-> 1, w |-> 1, px |-> <<<<Black>>>>]
DefaultFs == [p \in Existing |->
                 IF p \in {PathJunk, PathNoDot} THEN None ELSE Some(DefaultGrid)]

RowIdle ==
    /\ r_row = <<>>
    /\ r_mask = <<>>
    /\ r_k = 1
    /\ r_walk = WalkInit
    /\ r_pc = "idle"

CallIdle ==
    /\ version = "processing"
    /\ image_path = <<>>
    /\ mask_path = None
    /\ fs = DefaultFs
    /\ image = None
    /\ mask = None
    /\ pc = "idle"
    /\ row = 0
    /\ diffs = <<>>
    /\ result = None
    /\ trace = <<>>

\* ------------------------------------------------------------------- results
Ok(val) == Some([kind |-> "Ok", val |-> val])
Err(err, msg) == Some([kind |-> "Err", err |-> err, msg |-> msg])
Panic == Some([kind |-> "panic"])

\* the error type of each version for a bad argument, a missing file and a
\* failed decoding
ErrType(v, what) ==
    IF v = "main" THEN "Error"
    ELSE CASE what = "value" -> "PyValueError"
           [] what = "exists" -> "PyFileExistsError"
           [] what = "runtime" -> "PyRuntimeError"

\* validate_image_path: None when the path is accepted, else the error
validate_image_path(v, img_path, files) ==
    IF ~ends_with(img_path, DotPng)
    THEN Err(ErrType(v, "value"), <<"Non-PNG input: ", img_path>>)
    ELSE IF img_path \notin DOMAIN files
    THEN Err(ErrType(v, "exists"), <<"Image path does not exist: ", img_path>>)
    ELSE None

\* load_image: the decoded grid, or the decoder's error. main.rs turns the
\* pixels into booleans.
load_image(v, img_path, files) ==
    IF img_path \notin DOMAIN files \/ files[img_path] = None
    THEN Err(ErrType(v, "runtime"), <<"decode error: ", img_path>>)
    ELSE IF v = "main"
    THEN Ok(to_bool(files[img_path][1]))
    ELSE Ok(files[img_path][1])

\* ================================================= get_px_deltas_from_lines
\* the path whose file is decoded as the mask when a mask path is given
MaskLoadPath(v, img_path, msk_path) ==
    IF v = "main" THEN img_path ELSE msk_path[1]

\* the mask of a call without a mask path
DefaultMask(v, img) ==
    IF v = "main" THEN main_no_mask(img) ELSE no_mask(img)

\* get_diffs_from_row (main.rs) or pixel_deltas_from_row (processing.rs)
RowWalk(v, data_row, mask_row) ==
    IF v = "main" THEN main_row_walk(data_row, mask_row) ELSE row_walk(data_row, mask_row)

\* variant: only the heights are compared
ShapeMismatch_HeightOnly(img, msk) == img.h # msk.h

ShapeMismatch(img, msk) == Shape(img) # Shape(msk)

ShapeMessage(img, msk) ==
    <<"Shape mismatch: img=", Shape(img), ", mask=", Shape(msk)>>

\* variant: a row's deltas go in front of the earlier rows'
AppendRow_Front(acc, row_diffs) == row_diffs \o acc

AppendRow(acc, row_diffs) == acc \o row_diffs

\* validate_image_path(image_path)?
ValidateImage ==
    /\ entry = "call" /\ pc = "validate_image"
    /\ LET r == validate_image_path(version, image_path, fs) IN
         IF r = None
         THEN pc' = "load_image" /\ result' = result
         ELSE pc' = "done" /\ result' = r
    /\ trace' = Append(trace, "validate_image")
    /\ UNCHANGED <<entry, version, image_path, mask_path, fs, image, mask, row,
                   diffs, rowVars>>

\* let image = load_image(image_path)?
LoadImage ==
    /\ entry = "call" /\ pc = "load_image"
    /\ LET r == load_image(version, image_path, fs)[1] IN
         IF r.kind = "Ok"
         THEN pc' = "mask" /\ image' = Some(r.val) /\ result' = result
         ELSE pc' = "done" /\ image' = image /\ result' = Some(r)
    /\ trace' = Append(trace, "load_image")
    /\ UNCHANGED <<entry, version, image_path, mask_path, fs, mask, row, diffs,
                   rowVars>>

\* variant: the outcome of the mask path's validation is dropped
ValidateMask_Ignored ==
    /\ entry = "call" /\ pc = "mask" /\ mask_path # None
    /\ pc' = "load_mask"
    /\ trace' = Append(trace, "validate_mask")
    /\ UNCHANGED <<entry, version, image_path, mask_path, fs, image, mask, row,
                   diffs, result, rowVars>>

\* Some(pth) => validate_image_path(mask_path)?
ValidateMask ==
    /\ entry = "call" /\ pc = "mask" /\ mask_path # None
    /\ LET r == validate_image_path(version, mask_path[1], fs) IN
         IF r = None
         THEN pc' = "load_mask" /\ result' = result
         ELSE pc' = "done" /\ result' = r
    /\ trace' = Append(trace, "validate_mask")
    /\ UNCHANGED <<entry, version, image_path, mask_path, fs, image, mask, row,
                   diffs, rowVars>>

\* Some(pth) => load_image(..)?
LoadMask ==
    /\ entry = "call" /\ pc = "load_mask"
    /\ LET r == load_image(version, MaskLoadPath(version, image_path, mask_path), fs)[1] IN
         IF r.kind = "Ok"
         THEN pc' = "shape_check" /\ mask' = Some(r.val) /\ result' = result
         ELSE pc' = "done" /\ mask' = mask /\ result' = Some(r)
    /\ trace' = Append(trace, "load_mask")
    /\ UNCHANGED <<entry, version, image_path, mask_path, fs, image, row, diffs,
                   rowVars>>

\* None => image.clone().mapv(|_| 0)
NoMask ==
    /\ entry = "call" /\ pc = "mask" /\ mask_path = None
    /\ mask' = Some(DefaultMask(version, image[1]))
    /\ pc' = "shape_check"
    /\ trace' = Append(trace, "no_mask")
    /\ UNCHANGED <<entry, version, image_path, mask_path, fs, image, row, diffs,
                   result, rowVars>>

\* ========================================================= all_pixel_deltas
\* the shape test at the head of all_pixel_deltas (get_all_diffs in main.rs)
ShapeCheck ==
    /\ pc = "shape_check"
    /\ IF ShapeMismatch(image[1], mask[1])
       THEN /\ result' = Err(ErrType(version, "value"), ShapeMessage(image[1], mask[1]))
            /\ pc' = "done"
       ELSE /\ result' = result
            /\ pc' = "rows"
    /\ row' = 0
    /\ diffs' = <<>>
    /\ trace' = Append(trace, "shape_check")
    /\ UNCHANGED <<entry, version, image_path, mask_path, fs, image, mask, rowVars>>

\* one iteration of for row in 0..img_height
RowIter ==
    /\ pc = "rows" /\ row < image[1].h
    /\ LET w == RowWalk(version, image[1].px[row + 1], mask[1].px[row + 1]) IN
         IF w.panicked
         THEN /\ result' = Panic
              /\ pc' = "done"
              /\ UNCHANGED <<row, diffs>>
         ELSE /\ diffs' = AppendRow(diffs, w.row_diffs)
              /\ row' = row + 1
              /\ UNCHANGED <<pc, result>>
    /\ trace' = Append(trace, "row")
    /\ UNCHANGED <<entry, version, image_path, mask_path, fs, image, mask, rowVars>>

\* Ok(diffs)
Return ==
    /\ pc = "rows" /\ row = image[1].h
    /\ result' = Ok(diffs)
    /\ pc' = "done"
    /\ trace' = Append(trace, "return")
    /\ UNCHANGED <<entry, version, image_path, mask_path, fs, image, mask, row,
                   diffs, rowVars>>

\* ---------------------------------------------------------------- the calls
FileSystems(img_path, msk_path) ==
    LET named(p) == p = img_path \/ msk_path = Some(p)
        contents(p) == IF named(p) THEN FileGrids ELSE {DefaultGrid}
    IN  {[DefaultFs EXCEPT ![PathA] = Some(ga), ![PathB] = Some(gb)] :
            ga \in contents(PathA), gb \in contents(PathB)}

\* a call of get_px_deltas_from_lines(image_path, mask_path)
InitCall ==
    /\ entry = "call"
    /\ version \in Versions
    /\ image_path \in Paths
    /\ mask_path \in {None} \cup {Some(p) : p \in Paths}
    /\ fs \in FileSystems(image_path, mask_path)
    /\ image = None
    /\ mask = None
    /\ pc = "validate_image"
    /\ row = 0
    /\ diffs = <<>>
    /\ result = None
    /\ trace = <<>>
    /\ RowIdle

WhiteTotal(g) ==
    Cardinality({rc \in (1..g.h) \X (1..g.w) : g.px[rc[1]][rc[2]] = White})

\* the masks of a direct call: the grids of the image's shape with at most
\* MaxMasked white pixels, and for every other shape the grids of one colour
\* (the shape test never reads a pixel)
MasksFor(img) ==
    {g \in GridsOf(img.h, img.w, Pixels) : WhiteTotal(g) <= MaxMasked}
    \cup {Uniform(s[1], s[2], val) : s \in Shapes \ {Shape(img)}, val \in Pixels}

\* a call of all_pixel_deltas(image, mask)
InitDirect ==
    /\ entry = "direct"
    /\ version = "processing"
    /\ image_path = <<>>
    /\ mask_path = None
    /\ fs = DefaultFs
    /\ image \in {Some(g) : g \in Grids}
    /\ mask \in {Some(g) : g \in MasksFor(image[1])}
    /\ pc = "shape_check"
    /\ row = 0
    /\ diffs = <<>>
    /\ result = None
    /\ trace = <<>>
    /\ RowIdle

Init == InitCall \/ InitDirect

Next ==
    \/ ValidateImage
    \/ LoadImage
    \/ ValidateMask
    \/ LoadMask
    \/ NoMask
    \/ ShapeCheck
    \/ RowIter
    \/ Return

Spec == Init /\ [][Next]_vars

\* ------------------------------------- a single call of pixel_deltas_from_row
Rows == UNION {[1..n -> Pixels] : n \in 0..MaxLen}

InitRow ==
    /\ entry = "row"
    /\ CallIdle
    /\ r_row \in Rows
    /\ r_mask \in [1..Len(r_row) -> Pixels]
    /\ r_k = 1
    /\ r_walk = WalkInit
    /\ r_pc = "loop"

\* one iteration of for idx_end in mask_split_indices
RowBoundary ==
    /\ entry = "row" /\ r_pc = "loop"
    /\ r_k <= Len(mask_split_indices(r_row, r_mask))
    /\ LET st == WalkStep(r_walk, r_row, r_mask,
                          mask_split_indices(r_row, r_mask)[r_k]) IN
         /\ r_walk' = st
         /\ r_pc' = IF st.panicked THEN "panic" ELSE "loop"
    /\ r_k' = r_k + 1
    /\ UNCHANGED <<entry, callVars, r_row, r_mask>>

\* row_diffs
RowReturn ==
    /\ entry = "row" /\ r_pc = "loop"
    /\ r_k > Len(mask_split_indices(r_row, r_mask))
    /\ r_pc' = "returned"
    /\ UNCHANGED <<entry, callVars, r_row, r_mask, r_k, r_walk>>

NextRow == RowBoundary \/ RowReturn

SpecRow == InitRow /\ [][NextRow]_vars

\* =================================================================== claims
Returned == result # None
ReturnedOk == result # None /\ result[1].kind = "Ok"
ReturnedErr == result # None /\ result[1].kind = "Err"
HasGrids == image # None /\ mask # None
InTrace(step) == \E i \in 1..Len(trace) : trace[i] = step

\* C1: for a u8 image and mask of one shape, every value of the sequence
\* all_pixel_deltas returns is at least 2.
C1_DeltasAtLeastTwo ==
    (version = "processing" /\ ReturnedOk)
        => \A i \in 1..Len(result[1].val) : result[1].val[i] >= 2

\* a direct call returned deltas for an image that holds two adjacent white
\* pixels at unmasked columns (a distance of 1 that is not emitted)
C1_Witness ==
    /\ entry = "direct" /\ ReturnedOk
    /\ Len(result[1].val) > 0
    /\ \E r \in 1..image[1].h : \E c \in 1..(image[1].w - 1) :
          /\ image[1].px[r][c] = White /\ image[1].px[r][c + 1] = White
          /\ mask[1].px[r][c] = Black /\ mask[1].px[r][c + 1] = Black

\* C2: when the two grids differ in shape, all_pixel_deltas returns the
\* shape-mismatch error, whose message names both shapes, before any row is
\* scanned, and never returns a delta sequence.
C2_ShapeMismatchFailsFast ==
    (version = "processing" /\ HasGrids /\ Shape(image[1]) # Shape(mask[1]))
        => /\ ~InTrace("row")
           /\ ~InTrace("return")
           /\ pc # "rows"
           /\ Returned => /\ result[1].kind = "Err"
                          /\ result[1].err = "PyValueError"
                          /\ result[1].msg[1] = "Shape mismatch: img="
                          /\ result[1].msg[2] = Shape(image[1])
                          /\ result[1].msg[4] = Shape(mask[1])
           /\ pc = "done" => Returned

\* the call of all_pixel_deltas ended for two grids of the same height and
\* different widths
C2_Witness ==
    /\ version = "processing" /\ HasGrids /\ pc = "done"
    /\ image[1].h = mask[1].h /\ image[1].h > 0
    /\ image[1].w # mask[1].w

\* ---- the list of the claim C3, written from the pixels
\* column c (0-based) is white in the image row and not masked
Foreground(data_row, mask_row, c) ==
    data_row[c + 1] = White /\ mask_row[c + 1] # White

\* the columns c2 that pair with c1
Partners(data_row, mask_row, c1) ==
    {c2 \in (c1 + 1)..(Len(data_row) - 1) :
        /\ Foreground(data_row, mask_row, c1)
        /\ Foreground(data_row, mask_row, c2)
        /\ \A c \in (c1 + 1)..(c2 - 1) :
              mask_row[c + 1] # White /\ data_row[c + 1] # White
        /\ c2 - c1 >= 2}

RECURSIVE Ascending(_)
Ascending(S) ==
    IF S = {} THEN <<>>
    ELSE LET m == CHOOSE x \in S : \A y \in S : x <= y
         IN  <<m>> \o Ascending(S \ {m})

\* c2 - c1 over all pairs, by ascending c1 (then c2)
PairDeltas(data_row, mask_row) ==
    Concat([i \in 1..Len(data_row) |->
               LET c1 == i - 1
                   cs == Ascending(Partners(data_row, mask_row, c1))
               IN  [k \in 1..Len(cs) |-> cs[k] - c1]])

\* C3: for a data row and a mask row of equal length, pixel_deltas_from_row
\* returns exactly the list, in ascending column order, of c2 - c1 over the
\* pairs c1 < c2 of unmasked white columns with only unmasked, non-white
\* columns between them and c2 - c1 >= 2.
C3_RowDeltasArePairDeltas ==
    (entry = "row" /\ r_pc = "returned")
        => r_walk.row_diffs = PairDeltas(r_row, r_mask)

\* a row returned a delta from each side of a masked column
C3_Witness ==
    /\ entry = "row" /\ r_pc = "returned"
    /\ \E m \in 0..(Len(r_row) - 1) :
          /\ r_mask[m + 1] = White
          /\ \E c1 \in 0..(m - 1) : Partners(r_row, r_mask, c1) # {}
          /\ \E c1 \in (m + 1)..(Len(r_row) - 1) : Partners(r_row, r_mask, c1) # {}

\* ---- C4
WhiteCount(sub_row) == Len(white_pixel_indices(sub_row))

RECURSIVE DropLeadingBlack(_)
DropLeadingBlack(sub_row) ==
    IF sub_row = <<>> \/ Head(sub_row) = White THEN sub_row
    ELSE DropLeadingBlack(Tail(sub_row))

Segment(i) == SubSeq(r_row, r_walk.segs[i][1] + 1, r_walk.segs[i][2])

\* C4: the first edge of a segment never yields a delta: one white pixel gives
\* an empty list, k >= 1 white pixels give at most k - 1 deltas, and the
\* black columns before the first edge do not change the result.
C4_FirstEdgeYieldsNoDelta ==
    entry = "row" =>
        \A i \in 1..Len(r_walk.segs) :
            LET sub_row == Segment(i)
                out == r_walk.outs[i]
                k == WhiteCount(sub_row)
            IN  /\ k = 1 => out = <<>>
                /\ k >= 1 => Len(out) <= k - 1
                /\ out = pixel_deltas_from_masked_run(DropLeadingBlack(sub_row))
                /\ out = pixel_deltas_from_masked_run(<<Black>> \o sub_row)

\* a row returned after measuring a segment with a single edge and a segment
\* with several edges, the first at local column 2 or more, that gave a delta
\* for each edge but the first
C4_Witness ==
    /\ entry = "row" /\ r_pc = "returned"
    /\ \E i \in 1..Len(r_walk.segs) : WhiteCount(Segment(i)) = 1
    /\ \E i \in 1..Len(r_walk.segs) :
          /\ WhiteCount(Segment(i)) >= 2
          /\ white_pixel_indices(Segment(i))[1] >= 2
          /\ Len(r_walk.outs[i]) = WhiteCount(Segment(i)) - 1

\* ---- C5
SameShape == HasGrids /\ Shape(image[1]) = Shape(mask[1])
RowDeltas(r) == pixel_deltas_from_row(image[1].px[r], mask[1].px[r])

\* C5: for grids of one shape the output of all_pixel_deltas is the
\* concatenation, for rows 0 to height - 1 in that order, of
\* pixel_deltas_from_row of that image row and the mask row of the same index
\* (after n iterations the accumulator holds the first n rows' deltas), each
\* row's deltas being its segments' deltas from left to right.
C5_RowMajorConcatenation ==
    (version = "processing" /\ SameShape /\ pc \in {"rows", "done"})
        => /\ diffs = Concat([r \in 1..row |-> RowDeltas(r)])
           /\ ReturnedOk =>
                /\ row = image[1].h
                /\ result[1].val = Concat([r \in 1..image[1].h |-> RowDeltas(r)])
           /\ pc = "done" => \A r \in 1..image[1].h :
                LET w == row_walk(image[1].px[r], mask[1].px[r]) IN
                /\ w.row_diffs = Concat(w.outs)
                /\ \A i \in 1..Len(w.outs) :
                      w.outs[i] = pixel_deltas_from_masked_run(
                          SubSeq(image[1].px[r], w.segs[i][1] + 1, w.segs[i][2]))
                /\ \A i, j \in 1..Len(w.segs) : i < j => w.segs[i][2] <= w.segs[j][1]

\* a call returned for a grid whose first two rows give different, non-empty
\* delta lists
C5_Witness ==
    /\ version = "processing" /\ SameShape /\ ReturnedOk
    /\ image[1].h >= 2
    /\ RowDeltas(1) # <<>> /\ RowDeltas(2) # <<>>
    /\ RowDeltas(1) # RowDeltas(2)

\* ---- C6
\* C6: the ranges [start, end) pixel_deltas_from_row hands to the delta
\* computer are in ascending order, pairwise disjoint, hold no masked column
\* and, once the row is walked, cover every unmasked column exactly once; no
\* range lies between two adjacent masked columns.
C6_SegmentsPartitionUnmasked ==
    entry = "row" =>
        LET segs == r_walk.segs
            n == Len(r_row)
            unmasked == {c \in 0..(n - 1) : r_mask[c + 1] # White}
        IN  /\ \A i \in 1..Len(segs) :
                  /\ 0 <= segs[i][1] /\ segs[i][1] <= segs[i][2] /\ segs[i][2] <= n
                  /\ \A c \in segs[i][1]..(segs[i][2] - 1) : c \in unmasked
                  /\ segs[i][1] > 0 => segs[i][1] < segs[i][2]
            /\ \A i, j \in 1..Len(segs) : i < j => segs[i][2] < segs[j][1]
            /\ r_pc = "returned" =>
                  \A c \in unmasked :
                      Cardinality({i \in 1..Len(segs) :
                                      segs[i][1] <= c /\ c < segs[i][2]}) = 1

\* a row with two adjacent masked columns between unmasked columns was walked
C6_Witness ==
    /\ entry = "row" /\ r_pc = "returned"
    /\ Len(r_walk.segs) >= 2
    /\ \E m \in 1..(Len(r_row) - 3) :
          /\ r_mask[m] = Black
          /\ r_mask[m + 1] = White /\ r_mask[m + 2] = White
          /\ r_mask[m + 3] = Black

\* ---- C7
AllBackground(g) == \A r \in 1..g.h : \A c \in 1..g.w : g.px[r][c] # White

\* C7: when the mask holds no white pixel each row is one segment spanning the
\* row, so all_pixel_deltas returns the concatenation over the rows of
\* pixel_deltas_from_masked_run of the whole row; and a call of
\* get_px_deltas_from_lines without a mask path passes such a mask, of the
\* image's shape.
C7_NoMaskIsWholeRows ==
    version = "processing" =>
        /\ (SameShape /\ pc = "done" /\ AllBackground(mask[1])) =>
              /\ \A r \in 1..image[1].h :
                    row_walk(image[1].px[r], mask[1].px[r]).segs = << <<0, image[1].w>> >>
              /\ ReturnedOk =>
                    result[1].val =
                        Concat([r \in 1..image[1].h |->
                                   pixel_deltas_from_masked_run(image[1].px[r])])
        /\ (entry = "call" /\ mask_path = None /\ mask # None) =>
              /\ image # None
              /\ Shape(mask[1]) = Shape(image[1])
              /\ AllBackground(mask[1])
              /\ Returned => ReturnedOk

\* a call without a mask path returned deltas
C7_Witness ==
    /\ version = "processing" /\ entry = "call" /\ mask_path = None
    /\ ReturnedOk
    /\ result[1].val # <<>>

\* ---- C8
\* C8: for grids of one shape all_pixel_deltas never panics: no row's walk
\* takes a slice with idx_start > idx_end or idx_end beyond the row, reads the
\* mask out of bounds, or subtracts below zero.
C8_NoPanic ==
    version = "processing" =>
        /\ Returned => result[1].kind # "panic"
        /\ (SameShape /\ pc = "done") =>
              /\ ReturnedOk
              /\ \A r \in 1..image[1].h :
                    ~row_walk(image[1].px[r], mask[1].px[r]).panicked

\* a call returned for a grid with a row masked at its first and at its last
\* column, both white in the image
C8_Witness ==
    /\ version = "processing" /\ SameShape /\ ReturnedOk
    /\ image[1].w >= 3
    /\ \E r \in 1..image[1].h :
          /\ mask[1].px[r][1] = White /\ image[1].px[r][1] = White
          /\ mask[1].px[r][image[1].w] = White /\ image[1].px[r][image[1].w] = White

\* ---- C9
\* the grid a version's load_image gives for a path, None when it fails
Decoded(v, path) ==
    LET r == load_image(v, path, fs)[1] IN
    IF r.kind = "Ok" THEN Some(r.val) ELSE None

\* C9: in both versions of get_px_deltas_from_lines, the mask handed to the
\* delta extraction is the grid decoded from the mask path when one is
\* given, and otherwise a grid of the image's shape without a white pixel.
C9_MaskIsDecodedFromMaskPath ==
    (entry = "call" /\ mask # None) =>
        IF mask_path # None
        THEN mask = Decoded(version, mask_path[1])
        ELSE /\ Shape(mask[1]) = Shape(image[1])
             /\ \A r \in 1..mask[1].h : \A c \in 1..mask[1].w :
                   mask[1].px[r][c] = (IF version = "main" THEN FALSE ELSE Black)

\* ---- C10
\* the steps of a call that go by without an error, in order
StepOrder ==
    IF mask_path = None
    THEN <<"validate_image", "load_image", "no_mask", "shape_check">>
    ELSE <<"validate_image", "load_image", "validate_mask", "load_mask", "shape_check">>

\* the outcome of a step on the arguments of the call: None when it passes
StepError(step) ==
    CASE step = "validate_image" -> validate_image_path(version, image_path, fs)
      [] step = "load_image" ->
            IF Decoded(version, image_path) = None
            THEN load_image(version, image_path, fs) ELSE None
      [] step = "validate_mask" -> validate_image_path(version, mask_path[1], fs)
      [] step = "load_mask" ->
            IF Decoded(version, mask_path[1]) = None
            THEN load_image(version, mask_path[1], fs) ELSE None
      [] step = "no_mask" -> None
      [] step = "shape_check" ->
            IF ShapeMismatch(image[1], mask[1])
            THEN Err(ErrType(version, "value"), ShapeMessage(image[1], mask[1]))
            ELSE None

\* the steps taken so far follow the fixed order, every step but the last
\* passed, and the rows are scanned only after the shape test
OrderedTrace ==
    LET n == Len(StepOrder)
        m == IF Len(trace) < n THEN Len(trace) ELSE n
    IN  /\ \A i \in 1..m : trace[i] = StepOrder[i]
        /\ \A i \in 1..(m - 1) : StepError(trace[i]) = None
        /\ \A i \in (n + 1)..Len(trace) :
              /\ StepError("shape_check") = None
              /\ trace[i] = (IF i = Len(trace) /\ pc = "done" THEN "return" ELSE "row")

\* a failing step returns its error at once; a delta sequence is returned
\* only when every step passed
FailFast ==
    /\ (trace # <<>> /\ Len(trace) <= Len(StepOrder)
            /\ StepError(trace[Len(trace)]) # None)
          => /\ pc = "done"
             /\ result = StepError(trace[Len(trace)])
    /\ ReturnedErr
          => /\ Len(trace) <= Len(StepOrder)
             /\ result = StepError(trace[Len(trace)])
    /\ ReturnedOk
          => \A i \in 1..Len(StepOrder) : StepError(StepOrder[i]) = None
    /\ Returned <=> pc = "done"

\* C10: in processing.rs get_px_deltas_from_lines runs its steps in a fixed
\* order (each path validated before its file is decoded, the shape test
\* after both grids exist and before any row), returns the error of the
\* first failing step, runs no step after it, and returns no delta sequence
\* then.
C10_FailFastOrder ==
    /\ []((version = "processing" /\ entry = "call") => (OrderedTrace /\ FailFast))
    /\ [][(version = "processing" /\ entry = "call") => ~Returned]_vars

\* a call with a mask path stopped at the decoding of the mask
C10_Witness ==
    /\ version = "processing" /\ entry = "call"
    /\ trace = <<"validate_image", "load_image", "validate_mask", "load_mask">>
    /\ ReturnedErr
    /\ result[1].err = "PyRuntimeError"

\* ---- C11
\* the first and the last column of every maximal run of adjacent white
\* pixels of a segment, in ascending order
RunStarts(sub_row) ==
    SelectSeq([i \in 1..Len(sub_row) |-> i - 1],
              LAMBDA c : sub_row[c + 1] = White /\ (c = 0 \/ sub_row[c] # White))

RunEnds(sub_row) ==
    SelectSeq([i \in 1..Len(sub_row) |-> i - 1],
              LAMBDA c : /\ sub_row[c + 1] = White
                         /\ (c = Len(sub_row) - 1 \/ sub_row[c + 2] # White))

\* from the rightmost pixel of each run to the leftmost pixel of the next
RunGaps(sub_row) ==
    [k \in 1..(Len(RunStarts(sub_row)) - 1) |->
        RunStarts(sub_row)[k + 1] - RunEnds(sub_row)[k]]

\* C11: last_edge_idx follows every edge, kept or not, so a run of adjacent
\* white pixels gives no delta inside it; the delta into a run is measured to
\* its leftmost pixel and the delta out of it from its rightmost pixel.
C11_RunsMeasureEdgeToEdge ==
    entry = "row" =>
        \A i \in 1..Len(r_walk.segs) : r_walk.outs[i] = RunGaps(Segment(i))

\* a segment with a run of three or more white pixels, and a delta into it and
\* one out of it, was measured
C11_Witness ==
    /\ entry = "row" /\ r_pc = "returned"
    /\ \E i \in 1..Len(r_walk.segs) :
          \E k \in 2..(Len(RunStarts(Segment(i))) - 1) :
              RunEnds(Segment(i))[k] - RunStarts(Segment(i))[k] >= 2

\* ---- C12
\* the boundary list written from the mask row: the masked columns in
\* ascending order, then the row length
Boundaries ==
    Append(SelectSeq([i \in 1..Len(r_mask) |-> i - 1],
                     LAMBDA c : r_mask[c + 1] = White),
           Len(r_row))

\* idx_start when boundary j is reached: 0, then one past the boundary before
StartAt(j) == IF j = 1 THEN 0 ELSE Boundaries[j - 1] + 1

\* boundary j follows a masked column
AfterMasked(j) == Boundaries[j] # 0 /\ r_mask[Boundaries[j]] = White

\* the ranges the first n boundaries give when the boundaries of skipped are
\* left out
RangesOf(n, skipped) ==
    LET js == SelectSeq([j \in 1..n |-> j], LAMBDA j : j \notin skipped)
    IN  [m \in 1..Len(js) |-> <<StartAt(js[m]), Boundaries[js[m]]>>]

\* C12 as claimed: a boundary gives no range when it is 0 or follows a masked
\* column and the range [start, end) otherwise; start is end + 1 after every
\* boundary.
C12_NoRangeAtZero ==
    (entry = "row" /\ r_pc \in {"loop", "returned"}) =>
        /\ r_walk.segs =
              RangesOf(r_k - 1, {j \in 1..(r_k - 1) : Boundaries[j] = 0 \/ AfterMasked(j)})
        /\ r_walk.idx_start = StartAt(r_k)

\* C12 as amended: a boundary gives no range when it follows a masked column
\* and the range [start, end) otherwise, which for the boundary 0 is the
\* empty range [0, 0); start is end + 1 after every boundary.
C12_BoundaryWalk ==
    (entry = "row" /\ r_pc \in {"loop", "returned"}) =>
        /\ r_walk.segs = RangesOf(r_k - 1, {j \in 1..(r_k - 1) : AfterMasked(j)})
        /\ r_walk.idx_start = StartAt(r_k)
        /\ \A i \in 1..Len(r_walk.segs) :
              r_walk.segs[i][2] = 0 => r_walk.outs[i] = <<>>

\* a row masked at column 0 was walked: the boundary 0 gave the range [0, 0),
\* a later boundary that follows a masked column was skipped, and a range with
\* pixels was handed on
C12_Witness ==
    /\ entry = "row" /\ r_pc = "returned"
    /\ Len(r_row) > 0 /\ r_mask[1] = White
    /\ r_walk.segs[1] = <<0, 0>>
    /\ \E j \in 2..Len(Boundaries) : AfterMasked(j)
    /\ \E i \in 1..Len(r_walk.segs) : r_walk.segs[i][1] < r_walk.segs[i][2]

\* ---- C13
\* a u8 row as main.rs holds it: load_image maps each pixel to a == u8::MAX
BoolRow(sub_row) == [i \in 1..Len(sub_row) |-> IsMax(sub_row[i])]

\* the white columns of a segment, written from the pixels
WhiteColumns(sub_row) ==
    SelectSeq([i \in 1..Len(sub_row) |-> i - 1], LAMBDA c : sub_row[c + 1] = White)

\* C13: get_diffs_from_sub_row (main.rs) and pixel_deltas_from_masked_run
\* (processing.rs) differ only at the first edge e0 of a segment: the main.rs
\* output is the processing.rs output with e0 in front when e0 >= 2, and the
\* same list when the segment has no edge or e0 is 0 or 1.
C13_MainCountsFirstEdge ==
    entry = "row" =>
        \A i \in 1..Len(r_walk.segs) :
            LET edges == WhiteColumns(Segment(i))
                old == get_diffs_from_sub_row(BoolRow(Segment(i)))
            IN  IF edges = <<>> \/ edges[1] <= 1
                THEN old = r_walk.outs[i]
                ELSE old = <<edges[1]>> \o r_walk.outs[i]

\* a row was walked with a segment whose first edge is at local column 2 or
\* more and that gave deltas, and a segment whose first edge is at 0 or 1
C13_Witness ==
    /\ entry = "row" /\ r_pc = "returned"
    /\ \E i \in 1..Len(r_walk.segs) :
          /\ WhiteColumns(Segment(i)) # <<>>
          /\ WhiteColumns(Segment(i))[1] >= 2
          /\ r_walk.outs[i] # <<>>
    /\ \E i \in 1..Len(r_walk.segs) :
          /\ WhiteColumns(Segment(i)) # <<>>
          /\ WhiteColumns(Segment(i))[1] <= 1

\* ---- C14
\* img_row with every column where row_mask is foreground overwritten by val
Overwritten(img_row, row_mask, val) ==
    [c \in 1..Len(img_row) |-> IF row_mask[c] = White THEN val ELSE img_row[c]]

MaskedColumns == {c \in 1..Len(r_mask) : r_mask[c] = White}

\* C14: the image values at masked columns do not influence the result of
\* pixel_deltas_from_row. Two rows agree on every unmasked column exactly when
\* overwriting their masked columns gives one row, so the claim is that every
\* row returns what its overwritten row returns under the same mask row, with
\* either pixel value written; the initial states hold every row and mask row
\* up to MaxLen.
C14_MaskedPixelsIgnored ==
    (entry = "row" /\ r_pc = "returned") =>
        \A val \in Pixels :
            /\ ~row_walk(Overwritten(r_row, r_mask, val), r_mask).panicked
            /\ pixel_deltas_from_row(Overwritten(r_row, r_mask, val), r_mask)
                   = r_walk.row_diffs

\* a row was walked that gave deltas and has a white and a black pixel at
\* masked columns, the white one next to an unmasked white pixel two or more
\* columns from the previous edge
C14_Witness ==
    /\ entry = "row" /\ r_pc = "returned"
    /\ r_walk.row_diffs # <<>>
    /\ \E c \in MaskedColumns : r_row[c] = Black
    /\ \E c \in MaskedColumns :
          /\ r_row[c] = White
          /\ c >= 3 /\ r_mask[c - 1] # White /\ r_mask[c - 2] # White
          /\ r_row[c - 1] = Black /\ r_row[c - 2] = White

====
